---- MODULE Spec2Model ----
(***************************************************************************)
(* A model of the BWM-ILP timetabling pipeline of app/services/bwm_ilp.py: *)
(* run_bwm_ilp loads one dataset, derives the candidate rooms and          *)
(* (timeslot, lecturer) pairs of every class, builds and solves a 0/1      *)
(* program, projects the solution to one assignment per class and replaces *)
(* the ScheduleEntry rows of the dataset in one database transaction.      *)
(*                                                                         *)
(* Numbers that the program holds as floats (weights, preference scores,   *)
(* penalties) are held here in fixed point: One stands for 1.0, and a      *)
(* product of two such numbers is in units of 1/(One*One).                 *)
(***************************************************************************)
EXTENDS Integers, Sequences, FiniteSets, TLC

VARIABLES
    ds,           \* the rows of the input tables that carry the dataset id
    schedule,     \* the committed rows of out_schedule (ScheduleEntry)
    nextId,       \* the next autoincrement schedule_id
    runsLeft,     \* how many more requests the behaviour may start
    concurrent,   \* whether requests may overlap (several workers)
    solver_sound, \* whether Solve() keeps to the backend's contract
    delete_locks, \* whether the database behind DATABASE_URL makes a DELETE wait
                  \* for an open transaction that deleted in the same dataset
    single_loop,  \* whether the requests are coroutines of one event loop
    holder,       \* the request whose synchronous code occupies that event
                  \* loop, 0 when the loop is free
    prior,        \* prior[p]: the committed rows when request p started
    previous,     \* previous[p]: the result of p's request before this one
    pc,           \* pc[p]: where request p stands inside run_bwm_ilp
    status_code,  \* status_code[p]: what solver.Solve() returned
    sol,          \* sol[p]: the variables with solution_value() > 0.5
    session,      \* session[p]: the uncommitted work of p's AsyncSession
    assignments,  \* assignments[p]: the AssignmentResult list built so far
    result,       \* result[p]: the BwmIlpResult returned, or NoResult
    error,        \* error[p]: the HTTPException raised, or NoError
    response      \* response[p]: what simulate_bwm_ilp answered, or NoResponse

vars == <<ds, schedule, nextId, runsLeft, concurrent, solver_sound, delete_locks,
          single_loop, holder, prior, previous, pc,
          status_code, sol, session, assignments, result, error, response>>

----------------------------------------------------------------------------
(* Bounds of the model. *)

NumClasses   == 2
NumRooms     == 2
NumTimeslots == 2
NumLecturers == 2
MaxCap       == 2   \* capacities and student counts range over 1..MaxCap
MaxRuns      == 2   \* successive requests on one dataset (SpecSeq)
NumReq       == 2   \* overlapping requests (SpecConc)

One == 1000         \* the float 1.0 in fixed point

ClassIds    == 1..NumClasses
RoomIds     == 1..NumRooms
TimeslotIds == 1..NumTimeslots
LecturerIds == 1..NumLecturers
Procs       == 1..NumReq

SOFT_CONSTRAINT_KEYS == {"LECTURER_PREFERENCE", "ROOM_UTILIZATION", "PEAK_TIME_AVOIDANCE"}

----------------------------------------------------------------------------
(* Helpers over sets and sequences. *)

Min(S) == CHOOSE m \in S : \A n \in S : m <= n

Max2(a, b) == IF a >= b THEN a ELSE b

RECURSIVE SortedSeq(_)
\* The elements of a finite set of integers, ascending.
SortedSeq(S) == IF S = {} THEN <<>> ELSE <<Min(S)>> \o SortedSeq(S \ {Min(S)})

RECURSIVE SumSeq(_)
SumSeq(s) == IF s = <<>> THEN 0 ELSE Head(s) + SumSeq(Tail(s))

Range(s) == {s[i] : i \in 1..Len(s)}

\* str.lower() on the strings the model uses.
Lower(s) ==
    CASE s = "LAB"       -> "lab"
      [] s = "Lab"       -> "lab"
      [] s = "HYBRID"    -> "hybrid"
      [] s = "Hybrid"    -> "hybrid"
      [] s = "LECTURE"   -> "lecture"
      [] s = "Lecture"   -> "lecture"
      [] s = "AVAILABLE" -> "available"
      [] s = "Available" -> "available"
      [] s = "BUSY"      -> "busy"
      [] OTHER           -> s

LecturerCode(l) == "L" \o ToString(l)

----------------------------------------------------------------------------
(* The dataset loader: the lookup maps of run_bwm_ilp. *)

\* classes ordered by class_id
classes == SortedSeq({c.class_id : c \in ds.classes})

ClassRow(cid) == CHOOSE c \in ds.classes : c.class_id = cid

\* course_by_id.get(course_id)
HasCourse(course_id) == \E k \in ds.courses : k.course_id = course_id

CourseRow(course_id) == CHOOSE k \in ds.courses : k.course_id = course_id

lecturer_ids == {l.lecturer_id : l \in ds.lecturers}

\* lecturer_by_code.get(code)
HasLecturerCode(code) == \E l \in ds.lecturers : l.lecturer_code = code

LecturerByCode(code) == CHOOSE l \in ds.lecturers : l.lecturer_code = code

\* weight_map[key], 0.0 when the dataset has no row for the key
weight_map(key) ==
    IF \E w \in ds.penalty_weights : w.soft_constraint = key
    THEN (CHOOSE w \in ds.penalty_weights : w.soft_constraint = key).weight_bwm
    ELSE 0

\* course_candidates as it would be if every lecturer of the dataset were a
\* candidate of every course.
course_candidates_every_lecturer(course_id) == lecturer_ids

\* course_candidates[course_id]: the lecturers the profile's codes resolve to,
\* or every lecturer of the dataset when none resolves
course_candidates(course_id) ==
    LET profile    == CourseRow(course_id).candidate_lecturers
        candidates == {LecturerByCode(profile[i]).lecturer_id :
                          i \in {j \in 1..Len(profile) : HasLecturerCode(profile[j])}}
    IN  IF candidates = {} THEN lecturer_ids ELSE candidates

\* room_equipment[room_id].get(key, 0)
EquipmentQuantity(room_id, key) ==
    IF \E e \in ds.room_equipment : e.room_id = room_id /\ e.equipment_key = key
    THEN (CHOOSE e \in ds.room_equipment :
              e.room_id = room_id /\ e.equipment_key = key).quantity
    ELSE 0

\* course_requirements.get(course_id, [])
course_requirements(course_id) == {q \in ds.course_requirements : q.course_id = course_id}

\* availability_map as it would be if any row of the pair counted, whatever
\* its status.
availability_map_any_status(lecturer_id, timeslot_id) ==
    \E a \in ds.availability :
        a.lecturer_id = lecturer_id /\ a.timeslot_id = timeslot_id

\* availability_map.get((lecturer_id, timeslot_id), False)
availability_map(lecturer_id, timeslot_id) ==
    \E a \in ds.availability :
        /\ a.lecturer_id = lecturer_id
        /\ a.timeslot_id = timeslot_id
        /\ Lower(a.status) = "available"

\* preference_map.get((lecturer_id, timeslot_id), 0.0)
preference_map(lecturer_id, timeslot_id) ==
    IF \E f \in ds.preferences : f.lecturer_id = lecturer_id /\ f.timeslot_id = timeslot_id
    THEN (CHOOSE f \in ds.preferences :
              f.lecturer_id = lecturer_id /\ f.timeslot_id = timeslot_id).preference_score
    ELSE 0

\* EffectiveCapacity as it would be if the enrollment rows were not consulted.
EffectiveCapacityDeclared(cid) == ClassRow(cid).class_capacity

\* ClassInfo.capacity: the enrollment's student_count when the class has one
EffectiveCapacity(cid) ==
    IF \E e \in ds.enrollments : e.class_id = cid
    THEN (CHOOSE e \in ds.enrollments : e.class_id = cid).student_count
    ELSE ClassRow(cid).class_capacity

\* ClassInfo of class cid
ClassInfo(cid) ==
    LET cls == ClassRow(cid)
    IN  [class_id            |-> cid,
         course_id           |-> cls.course_id,
         capacity            |-> EffectiveCapacity(cid),
         session_type        |-> cls.session_type,
         requires_lab        |-> Lower(cls.session_type) = "lab",
         candidate_lecturers |-> course_candidates(cls.course_id)]

RoomInfo(room_id) == CHOOSE r \in ds.rooms : r.room_id = room_id

TimeslotInfo(timeslot_id) == CHOOSE t \in ds.timeslots : t.timeslot_id = timeslot_id

room_ids == {r.room_id : r \in ds.rooms}

timeslot_ids == {t.timeslot_id : t \in ds.timeslots}

----------------------------------------------------------------------------
(* The feasibility preprocessor. *)

\* req.min_quantity or 1 (a missing min_quantity is held as 0: None and 0
\* both give 1)
MinQuantity(q) == IF q.min_quantity = 0 THEN 1 ELSE q.min_quantity

\* _room_compatible as it would be without the lab-room check.
room_compatible_no_lab_check(class_info, room_info) ==
    IF class_info.capacity > room_info.capacity THEN FALSE
    ELSE IF ~class_info.requires_lab /\ Lower(room_info.room_type) = "lab"
         THEN TRUE
    ELSE \A q \in course_requirements(class_info.course_id) :
            \/ q.session_type # "" /\ Lower(q.session_type) # Lower(class_info.session_type)
            \/ ~(/\ q.required_flag
                 /\ EquipmentQuantity(room_info.room_id, q.requirement_key)
                        < (IF q.min_quantity = 0 THEN 1 ELSE q.min_quantity))

\* _room_compatible(class_info, room_info)
room_compatible(class_info, room_info) ==
    IF class_info.capacity > room_info.capacity THEN FALSE
    ELSE IF class_info.requires_lab /\ Lower(room_info.room_type) \notin {"lab", "hybrid"}
         THEN FALSE
    ELSE IF /\ ~class_info.requires_lab
            /\ Lower(room_info.room_type) = "lab"
            /\ class_info.session_type # "lab"
         THEN TRUE
    ELSE \A q \in course_requirements(class_info.course_id) :
            \/ q.session_type # "" /\ Lower(q.session_type) # Lower(class_info.session_type)
            \/ ~(/\ q.required_flag
                 /\ EquipmentQuantity(room_info.room_id, q.requirement_key) < MinQuantity(q))

\* room_candidates[class_id]
room_candidates(cid) ==
    {r \in room_ids : room_compatible(ClassInfo(cid), RoomInfo(r))}

\* the keys (class_id, timeslot_id, lecturer_id) of the w variables of a class
w_keys(cid) ==
    {<<cid, t, l>> : <<t, l>> \in
        {tl \in timeslot_ids \X ClassInfo(cid).candidate_lecturers :
            availability_map(tl[2], tl[1])}}

\* class_timeslot_candidates[class_id]
class_timeslot_candidates(cid) == {k[2] : k \in w_keys(cid)}

\* x_keys as it would be if an x variable were made at every timeslot of the
\* dataset.
x_keys_all_timeslots(cid) ==
    {<<cid, t, r>> : <<t, r>> \in timeslot_ids \X room_candidates(cid)}

\* the keys (class_id, timeslot_id, room_id) of the x variables of a class
x_keys(cid) ==
    {<<cid, t, r>> : <<t, r>> \in class_timeslot_candidates(cid) \X room_candidates(cid)}

\* The classes at which the preprocessing loop raises, in loop order.
FailingClasses ==
    {cid \in Range(classes) :
        room_candidates(cid) = {} \/ class_timeslot_candidates(cid) = {}}

----------------------------------------------------------------------------
(* The model builder.  A valuation v is [w |-> W, x |-> X]: the sets of     *)
(* keys of the w and x variables whose value is 1.                          *)

\* each class is assigned to exactly one lecturer-timeslot pairing
H1(v) ==
    \A cid \in Range(classes) : Cardinality({k \in v.w : k[1] = cid}) = 1

\* H2 as it would be with one equality per class, the sums taken over every
\* candidate timeslot.
H2OverAllTimeslots(v) ==
    \A cid \in Range(classes) :
        Cardinality({k \in v.w : k[1] = cid}) = Cardinality({k \in v.x : k[1] = cid})

\* class-room assignments mirror the chosen lecturer-timeslot
H2(v) ==
    \A cid \in Range(classes) : \A t \in class_timeslot_candidates(cid) :
        Cardinality({k \in v.w : k[1] = cid /\ k[2] = t})
            = Cardinality({k \in v.x : k[1] = cid /\ k[2] = t})

\* H3 as it would be with the bound 2 in place of 1.
H3AtMostTwo(v) ==
    \A l \in lecturer_ids : \A t \in timeslot_ids :
        Cardinality({k \in v.w : k[2] = t /\ k[3] = l}) <= 2

\* lecturers cannot double-book the same timeslot
H3(v) ==
    \A l \in lecturer_ids : \A t \in timeslot_ids :
        Cardinality({k \in v.w : k[2] = t /\ k[3] = l}) <= 1

\* H4 as it would be if its rows were never added to the solver.
H4Unchecked(v) == TRUE

\* H4 as it would be with the bound 2 in place of 1.
H4AtMostTwo(v) ==
    \A r \in room_ids : \A t \in timeslot_ids :
        Cardinality({k \in v.x : k[2] = t /\ k[3] = r}) <= 2

\* rooms cannot double-book the same timeslot
H4(v) ==
    \A r \in room_ids : \A t \in timeslot_ids :
        Cardinality({k \in v.x : k[2] = t /\ k[3] = r}) <= 1

\* gap / room.capacity, 0.0 for a room of capacity 0
utilization_penalty(cid, room_id) ==
    LET cap == RoomInfo(room_id).capacity
        gap == Max2(cap - EffectiveCapacity(cid), 0)
    IN  IF cap # 0 THEN (gap * One) \div cap ELSE 0

\* The coefficient of w[key] as it would be if the peak term were never added.
w_coeff_no_peak(key) ==
    weight_map("LECTURER_PREFERENCE") * (One - preference_map(key[3], key[2]))

\* the objective coefficient of w[key]
w_coeff(key) ==
    weight_map("LECTURER_PREFERENCE") * (One - preference_map(key[3], key[2]))
        + weight_map("PEAK_TIME_AVOIDANCE")
            * (IF TimeslotInfo(key[2]).is_peak THEN One ELSE 0)

\* the objective coefficient of x[key]
x_coeff(key) == weight_map("ROOM_UTILIZATION") * utilization_penalty(key[1], key[3])

RECURSIVE SumW(_)
SumW(W) == IF W = {} THEN 0
           ELSE LET k == CHOOSE k \in W : TRUE IN w_coeff(k) + SumW(W \ {k})

RECURSIVE SumX(_)
SumX(X) == IF X = {} THEN 0
           ELSE LET k == CHOOSE k \in X : TRUE IN x_coeff(k) + SumX(X \ {k})

\* the value of the objective at a valuation
Objective(v) == SumW(v.w) + SumX(v.x)

----------------------------------------------------------------------------
(* The solver driver.  The MILP backend is a library: a status OPTIMAL      *)
(* or FEASIBLE comes with a valuation that satisfies every constraint, and  *)
(* OPTIMAL with one of least objective.                                     *)

\* The valuations of one class that satisfy its rows of H1 and H2.
ClassValuations(cid) ==
    {v \in [w : SUBSET w_keys(cid), x : SUBSET x_keys(cid)] :
        /\ Cardinality(v.w) = 1
        /\ \A t \in class_timeslot_candidates(cid) :
              Cardinality({k \in v.w : k[2] = t}) = Cardinality({k \in v.x : k[2] = t})}

RECURSIVE JoinValuations(_)
\* Every union of one valuation per class of the sequence cs.
JoinValuations(cs) ==
    IF cs = <<>> THEN {[w |-> {}, x |-> {}]}
    ELSE {[w |-> a.w \cup b.w, x |-> a.x \cup b.x] :
             <<a, b>> \in ClassValuations(Head(cs)) \X JoinValuations(Tail(cs))}

\* The valuations that satisfy H1, H2, H3 and H4.
Feasible == {v \in JoinValuations(classes) : H1(v) /\ H2(v) /\ H3(v) /\ H4(v)}

Optimal(F) == {v \in F : \A u \in F : Objective(v) <= Objective(u)}

\* Every 0/1 valuation of the variables: what a backend that broke its
\* contract could hand back.
Valuations ==
    [w : SUBSET UNION {w_keys(cid) : cid \in Range(classes)},
     x : SUBSET UNION {x_keys(cid) : cid \in Range(classes)}]

----------------------------------------------------------------------------
(* The solution projector. *)

\* _collect_penalties as it would be if the preference term were the weight
\* times the score itself.
penalty_breakdown_by_score(cid, timeslot_id, room_id, lecturer_id) ==
    LET pref_penalty == weight_map("LECTURER_PREFERENCE")
                            * preference_map(lecturer_id, timeslot_id)
        peak         == weight_map("PEAK_TIME_AVOIDANCE") * One
        utilization  == IF RoomInfo(room_id).capacity # 0
                        THEN weight_map("ROOM_UTILIZATION")
                                 * utilization_penalty(cid, room_id)
                        ELSE 0
        keys == {key \in SOFT_CONSTRAINT_KEYS :
                    \/ key = "LECTURER_PREFERENCE" /\ pref_penalty # 0
                    \/ key = "PEAK_TIME_AVOIDANCE" /\ TimeslotInfo(timeslot_id).is_peak
                    \/ key = "ROOM_UTILIZATION" /\ utilization # 0}
    IN  [key \in keys |->
            CASE key = "LECTURER_PREFERENCE" -> pref_penalty
              [] key = "PEAK_TIME_AVOIDANCE" -> peak
              [] key = "ROOM_UTILIZATION"    -> utilization]

\* _collect_penalties: the breakdown map of one assignment
penalty_breakdown(cid, timeslot_id, room_id, lecturer_id) ==
    LET pref_penalty == weight_map("LECTURER_PREFERENCE")
                            * (One - preference_map(lecturer_id, timeslot_id))
        peak         == weight_map("PEAK_TIME_AVOIDANCE") * One
        utilization  == IF RoomInfo(room_id).capacity # 0
                        THEN weight_map("ROOM_UTILIZATION")
                                 * utilization_penalty(cid, room_id)
                        ELSE 0
        keys == {key \in SOFT_CONSTRAINT_KEYS :
                    \/ key = "LECTURER_PREFERENCE" /\ pref_penalty # 0
                    \/ key = "PEAK_TIME_AVOIDANCE" /\ TimeslotInfo(timeslot_id).is_peak
                    \/ key = "ROOM_UTILIZATION" /\ utilization # 0}
    IN  [key \in keys |->
            CASE key = "LECTURER_PREFERENCE" -> pref_penalty
              [] key = "PEAK_TIME_AVOIDANCE" -> peak
              [] key = "ROOM_UTILIZATION"    -> utilization]

RECURSIVE SumMap(_)
\* sum(penalties.values())
SumMap(f) ==
    IF DOMAIN f = {} THEN 0
    ELSE LET key == CHOOSE key \in DOMAIN f : TRUE
         IN  f[key] + SumMap([j \in DOMAIN f \ {key} |-> f[j]])

\* The projection loop for one class: the first selected x variable in the
\* order (room, timeslot), then the first selected w variable at its timeslot.
\* A field is 0 when the loop left it None.
Chosen(cid, v) ==
    LET xs == {k \in v.x : k[1] = cid /\ k \in x_keys(cid)}
        chosen_room_id     == IF xs = {} THEN 0 ELSE Min({k[3] : k \in xs})
        chosen_timeslot_id == IF xs = {} THEN 0
                              ELSE Min({k[2] : k \in {j \in xs : j[3] = chosen_room_id}})
        ls == {k[3] : k \in {j \in v.w : /\ j[1] = cid
                                          /\ j[2] = chosen_timeslot_id
                                          /\ j[3] \in ClassInfo(cid).candidate_lecturers}}
        chosen_lecturer_id == IF ls = {} THEN 0 ELSE Min(ls)
    IN  [timeslot_id |-> chosen_timeslot_id,
         room_id     |-> chosen_room_id,
         lecturer_id |-> chosen_lecturer_id]

Incomplete(ch) == ch.timeslot_id = 0 \/ ch.room_id = 0 \/ ch.lecturer_id = 0

\* AssignmentResult of one class
AssignmentResult(cid, v) ==
    LET ch        == Chosen(cid, v)
        breakdown == penalty_breakdown(cid, ch.timeslot_id, ch.room_id, ch.lecturer_id)
    IN  [class_id          |-> cid,
         lecturer_id       |-> ch.lecturer_id,
         room_id           |-> ch.room_id,
         timeslot_id       |-> ch.timeslot_id,
         penalty           |-> SumMap(breakdown),
         penalty_breakdown |-> breakdown]

\* The projection loop as it would be if it ended after its first class.
ProjectedAssignmentsFirstOnly(v) ==
    [i \in 1..1 |-> AssignmentResult(classes[i], v)]

\* assignments after the projection loop has run for every class
ProjectedAssignments(v) ==
    [i \in 1..Len(classes) |-> AssignmentResult(classes[i], v)]

\* the ScheduleEntry handed to session.add for one assignment
ScheduleEntry(a) ==
    [dataset_id  |-> ds.id,
     class_id    |-> a.class_id,
     lecturer_id |-> a.lecturer_id,
     room_id     |-> a.room_id,
     timeslot_id |-> a.timeslot_id,
     status      |-> "simulated",
     penalty     |-> a.penalty]

----------------------------------------------------------------------------
(* The result persister and the result. *)

NoError == [status |-> 0, detail |-> "", class_id |-> 0]

NoResult == [returned |-> FALSE]

EmptySession == [delete_issued |-> FALSE, deleted |-> {}, added |-> <<>>]

NoValuation == [w |-> {}, x |-> {}]

\* soft_totals after the projection loop, read with .get(key, 0.0)
\* soft_totals as it would be if each assignment's value replaced the running
\* total (soft_totals[key] = value) instead of being added to it.
soft_constraint_totals_overwrite(as) ==
    [key \in SOFT_CONSTRAINT_KEYS |->
        LET with == {i \in 1..Len(as) : key \in DOMAIN as[i].penalty_breakdown}
        IN  IF with = {} THEN 0
            ELSE as[CHOOSE i \in with : \A j \in with : j <= i].penalty_breakdown[key]]

soft_constraint_totals(as) ==
    [key \in SOFT_CONSTRAINT_KEYS |->
        SumSeq([i \in 1..Len(as) |->
            IF key \in DOMAIN as[i].penalty_breakdown
            THEN as[i].penalty_breakdown[key] ELSE 0])]

\* BwmIlpResult as it would be if solution_status were derived like
\* solver_status, from OPTIMAL or FEASIBLE.
BwmIlpResultStatusAsFeasible(as, code) ==
    [returned               |-> TRUE,
     dataset_id             |-> ds.id,
     objective_value        |-> SumMap(soft_constraint_totals(as)),
     soft_constraint_totals |-> soft_constraint_totals(as),
     assignments            |-> as,
     solver_status          |-> IF code \in {"OPTIMAL", "FEASIBLE"}
                                THEN "FEASIBLE" ELSE "NOT FEASIBLE",
     status                 |-> IF code \in {"OPTIMAL", "FEASIBLE"}
                                THEN "OPTIMAL" ELSE "NOT OPTIMAL"]

\* BwmIlpResult (execution_time, a clock reading, is left out)
BwmIlpResult(as, code) ==
    [returned               |-> TRUE,
     dataset_id             |-> ds.id,
     objective_value        |-> SumMap(soft_constraint_totals(as)),
     soft_constraint_totals |-> soft_constraint_totals(as),
     assignments            |-> as,
     solver_status          |-> IF code \in {"OPTIMAL", "FEASIBLE"}
                                THEN "FEASIBLE" ELSE "NOT FEASIBLE",
     status                 |-> IF code = "OPTIMAL" THEN "OPTIMAL" ELSE "NOT OPTIMAL"]

NoResponse == [status_code |-> 0, body |-> <<>>]

\* the fields of BwmSimulationResponse; none has a default
ResponseFields ==
    {"dataset_id", "dataset_name", "objective_value", "soft_constraint_totals",
     "solver_status", "status", "time_execution", "assignments"}

\* the keyword arguments simulate_bwm_ilp passes to BwmSimulationResponse
ResponseKeywords ==
    {"dataset_id", "dataset_name", "objective_value", "soft_constraint_totals",
     "assignments"}

\* BwmSimulationResponse(...) in simulate_bwm_ilp: the model validates its
\* keywords; a field left out raises a ValidationError, which no handler of
\* the application catches, and the request is answered with status 500.
BwmSimulationResponse(res) ==
    IF ResponseFields \subseteq ResponseKeywords
    THEN [status_code |-> 200,
          body |-> [k \in ResponseKeywords \cap DOMAIN res |-> res[k]]]
    ELSE [status_code |-> 500, body |-> <<>>]

\* The DELETE as it would be if its WHERE clause matched no row.
DatasetRowsNone(rows) == {}

\* The DELETE as it would be without its WHERE clause.
DatasetRowsAll(rows) == rows

\* The rows of the dataset a DELETE ... WHERE dataset_id = :id removes.
DatasetRows(rows) == {r \in rows : r.dataset_id = ds.id}

\* uq_schedule_dataset_class_timeslot
SameUniqueKey(a, b) ==
    /\ a.dataset_id = b.dataset_id
    /\ a.class_id = b.class_id
    /\ a.timeslot_id = b.timeslot_id

\* The rows the flush of session.add inserts, with their autoincrement ids.
InsertedRows(added, first_id) ==
    {[schedule_id |-> first_id + i - 1,
      dataset_id  |-> added[i].dataset_id,
      class_id    |-> added[i].class_id,
      lecturer_id |-> added[i].lecturer_id,
      room_id     |-> added[i].room_id,
      timeslot_id |-> added[i].timeslot_id,
      status      |-> added[i].status,
      penalty     |-> added[i].penalty] : i \in 1..Len(added)}

\* What a commit of session s leaves in out_schedule.
CommittedRows(s) ==
    {r \in schedule : r.schedule_id \notin s.deleted} \cup InsertedRows(s.added, nextId)

----------------------------------------------------------------------------
(* The requests.  Each action is one stretch of run_bwm_ilp.                *)

Resting(p) == pc[p] \in {"idle", "done", "failed"}

\* A coroutine is resumed only when no other occupies the event loop.
LoopFree == single_loop => holder = 0

\* raise as it would be if the closing session committed its pending work.
RaiseCommitsSession(p, status, detail, class_id) ==
    /\ pc' = [pc EXCEPT ![p] = "failed"]
    /\ error' = [error EXCEPT ![p] =
                    [status |-> status, detail |-> detail, class_id |-> class_id]]
    /\ session' = [session EXCEPT ![p] = EmptySession]
    /\ assignments' = [assignments EXCEPT ![p] = <<>>]
    /\ response' = [response EXCEPT ![p] = [status_code |-> status, body |-> <<>>]]
    /\ holder' = 0
    /\ schedule' = {r \in schedule : r.schedule_id \notin session[p].deleted}

\* raise HTTPException: the request ends and the closing session rolls back.
Raise(p, status, detail, class_id) ==
    /\ pc' = [pc EXCEPT ![p] = "failed"]
    /\ schedule' = schedule
    /\ error' = [error EXCEPT ![p] =
                    [status |-> status, detail |-> detail, class_id |-> class_id]]
    /\ session' = [session EXCEPT ![p] = EmptySession]
    /\ assignments' = [assignments EXCEPT ![p] = <<>>]
    /\ response' = [response EXCEPT ![p] = [status_code |-> status, body |-> <<>>]]
    /\ holder' = 0

\* The request goes on to the next step.  From the last load to
\* solver.Solve() there is no await: the code between them runs on
\* the event loop without yielding it.
Goto(p, label) ==
    /\ pc' = [pc EXCEPT ![p] = label]
    /\ schedule' = schedule
    /\ holder' = IF single_loop /\ label \in {"create_solver", "preprocess", "solve"}
                 THEN p ELSE 0
    /\ UNCHANGED <<error, session, assignments, response>>

\* simulate_bwm_ilp calls run_bwm_ilp with a fresh session.
Start(p) ==
    /\ Resting(p)
    /\ LoopFree
    /\ runsLeft > 0
    /\ concurrent \/ (p = 1 /\ \A q \in Procs : Resting(q))
    /\ runsLeft' = runsLeft - 1
    /\ pc' = [pc EXCEPT ![p] = "load"]
    /\ status_code' = [status_code EXCEPT ![p] = "NOT_SOLVED"]
    /\ sol' = [sol EXCEPT ![p] = NoValuation]
    /\ session' = [session EXCEPT ![p] = EmptySession]
    /\ assignments' = [assignments EXCEPT ![p] = <<>>]
    /\ previous' = [previous EXCEPT ![p] = result[p]]
    /\ result' = [result EXCEPT ![p] = NoResult]
    /\ error' = [error EXCEPT ![p] = NoError]
    /\ response' = [response EXCEPT ![p] = NoResponse]
    /\ prior' = [prior EXCEPT ![p] = schedule]
    /\ UNCHANGED <<ds, schedule, nextId, concurrent, solver_sound, delete_locks,
                   single_loop, holder>>

\* The loader as it would be if it looked for the classes before the dataset.
LoadClassesFirst(p) ==
    /\ pc[p] = "load"
    /\ LoopFree
    /\ IF classes = <<>>
       THEN Raise(p, 400, "Dataset has no classes to schedule", 0)
       ELSE IF ~ds.dataset_exists
       THEN Raise(p, 404, "Dataset not found", 0)
       ELSE IF \E cid \in Range(classes) : ~HasCourse(ClassRow(cid).course_id)
       THEN Raise(p, 400, "Class references missing course", 0)
       ELSE Goto(p, "create_solver")
    /\ UNCHANGED <<ds, nextId, runsLeft, concurrent, solver_sound,
                   delete_locks, single_loop, prior, previous,
                   status_code, sol, result>>

\* The dataset, its classes and the other tables are read; ClassInfo is built.
Load(p) ==
    /\ pc[p] = "load"
    /\ LoopFree
    /\ IF ~ds.dataset_exists
       THEN Raise(p, 404, "Dataset not found", 0)
       ELSE IF classes = <<>>
       THEN Raise(p, 400, "Dataset has no classes to schedule", 0)
       ELSE IF \E cid \in Range(classes) : ~HasCourse(ClassRow(cid).course_id)
       THEN Raise(p, 400, "Class references missing course", 0)
       ELSE Goto(p, "create_solver")
    /\ UNCHANGED <<ds, nextId, runsLeft, concurrent, solver_sound,
                   delete_locks, single_loop, prior, previous,
                   status_code, sol, result>>

\* pywraplp.Solver.CreateSolver("CBC") returns a solver or None.
CreateSolver(p) ==
    /\ pc[p] = "create_solver"
    /\ \E ok \in BOOLEAN :
          IF ok THEN Goto(p, "preprocess")
          ELSE Raise(p, 500, "Unable to initialise solver", 0)
    /\ UNCHANGED <<ds, nextId, runsLeft, concurrent, solver_sound,
                   delete_locks, single_loop, prior, previous,
                   status_code, sol, result>>

\* The loop over class_infos: room candidates, then the w variables, of each
\* class in turn; the first class that has none of either ends the request.
Preprocess(p) ==
    /\ pc[p] = "preprocess"
    /\ IF FailingClasses # {}
       THEN LET cid == Min(FailingClasses)
            IN  IF room_candidates(cid) = {}
                THEN Raise(p, 409, "No compatible room for class", cid)
                ELSE Raise(p, 409, "Class has no feasible lecturer availability", cid)
       ELSE Goto(p, "solve")
    /\ UNCHANGED <<ds, nextId, runsLeft, concurrent, solver_sound,
                   delete_locks, single_loop, prior, previous,
                   status_code, sol, result>>

\* The x variables, the constraints and the objective are built; solver.Solve().
Solve(p) ==
    /\ pc[p] = "solve"
    /\ LET F == IF solver_sound THEN Feasible ELSE Valuations
       IN  IF F = {}
           THEN /\ status_code' = [status_code EXCEPT ![p] = "INFEASIBLE"]
                /\ sol' = sol
                /\ Raise(p, 500, "No feasible schedule found", 0)
           ELSE \E code \in {"OPTIMAL", "FEASIBLE"} :
                  \E v \in (IF code = "OPTIMAL" THEN Optimal(F) ELSE F) :
                      /\ status_code' = [status_code EXCEPT ![p] = code]
                      /\ sol' = [sol EXCEPT ![p] = v]
                      /\ Goto(p, "delete")
    /\ UNCHANGED <<ds, nextId, runsLeft, concurrent, solver_sound,
                   delete_locks, single_loop, prior, previous, result>>

\* The delete as it would be if it were committed at once.
DeleteAutocommit(p) ==
    /\ pc[p] = "delete"
    /\ pc' = [pc EXCEPT ![p] = "project"]
    /\ session' = [session EXCEPT ![p] =
                      [delete_issued |-> TRUE, deleted |-> {}, added |-> <<>>]]
    /\ schedule' = schedule \ DatasetRows(schedule)
    /\ UNCHANGED <<ds, nextId, runsLeft, concurrent, solver_sound,
                   delete_locks, single_loop, prior, previous,
                   status_code, sol, assignments, result, error, holder,
                   response>>

\* session.execute(delete(ScheduleEntry).where(dataset_id == dataset_id)):
\* the rows are gone for this session, and for the others once it commits.
\* The statement asks for no lock (no with_for_update, no LOCK TABLES, no
\* isolation level on the engine); whether it waits for another open
\* transaction is left to the database the URL names.
Delete(p) ==
    /\ pc[p] = "delete"
    /\ delete_locks => \A q \in Procs \ {p} : ~session[q].delete_issued
    /\ pc' = [pc EXCEPT ![p] = "project"]
    /\ session' = [session EXCEPT ![p] =
                      [delete_issued |-> TRUE,
                       deleted       |-> {r.schedule_id : r \in DatasetRows(schedule)},
                       added         |-> <<>>]]
    /\ UNCHANGED <<ds, schedule, nextId, runsLeft, concurrent, solver_sound,
                   delete_locks, single_loop, prior, previous,
                   status_code, sol, assignments, result, error, holder,
                   response>>

\* The projection loop: one AssignmentResult and one session.add per class.
Project(p) ==
    /\ pc[p] = "project"
    /\ LoopFree
    /\ IF \E cid \in Range(classes) : Incomplete(Chosen(cid, sol[p]))
       THEN Raise(p, 500, "Incomplete assignment in solution", 0)
       ELSE LET as == ProjectedAssignments(sol[p])
            IN  /\ assignments' = [assignments EXCEPT ![p] = as]
                /\ session' = [session EXCEPT ![p].added =
                                  [i \in 1..Len(as) |-> ScheduleEntry(as[i])]]
                /\ pc' = [pc EXCEPT ![p] = "commit"]
                /\ UNCHANGED <<error, schedule, holder, response>>
    /\ UNCHANGED <<ds, nextId, runsLeft, concurrent, solver_sound,
                   delete_locks, single_loop, prior, previous,
                   status_code, sol, result>>

\* session.commit() flushes the inserts and commits; the result is returned
\* to simulate_bwm_ilp, which builds its response from it without an await
\* in between.
Commit(p) ==
    /\ pc[p] = "commit"
    /\ LoopFree
    /\ LET after == CommittedRows(session[p])
       IN  IF \E a, b \in after : a # b /\ SameUniqueKey(a, b)
           THEN /\ Raise(p, 500, "IntegrityError", 0)
                /\ UNCHANGED <<nextId, result>>
           ELSE /\ schedule' = after
                /\ nextId' = nextId + Len(session[p].added)
                /\ result' = [result EXCEPT ![p] =
                                 BwmIlpResult(assignments[p], status_code[p])]
                /\ response' = [response EXCEPT ![p] =
                                   BwmSimulationResponse(
                                       BwmIlpResult(assignments[p], status_code[p]))]
                /\ pc' = [pc EXCEPT ![p] = "done"]
                /\ session' = [session EXCEPT ![p] = EmptySession]
                /\ UNCHANGED <<assignments, error, holder>>
    /\ UNCHANGED <<ds, runsLeft, concurrent, solver_sound, delete_locks,
                   single_loop, prior, previous,
                   status_code, sol>>

Next ==
    \E p \in Procs :
        \/ Start(p)
        \/ Load(p)
        \/ CreateSolver(p)
        \/ Preprocess(p)
        \/ Solve(p)
        \/ Delete(p)
        \/ Project(p)
        \/ Commit(p)

----------------------------------------------------------------------------
(* The datasets the behaviours start from.  Each family varies one group of *)
(* tables over its whole bounded domain and holds the others at base        *)
(* values.                                                                  *)

SessionTypes == {"lecture", "lab", "LAB"}
RoomTypes    == {"lecture", "Lab", "hybrid"}
Statuses     == {"Available", "busy"}

BaseLecturers ==
    {[lecturer_id |-> l, lecturer_code |-> LecturerCode(l)] : l \in LecturerIds}

BaseTimeslots == {[timeslot_id |-> t, is_peak |-> (t = 1)] : t \in TimeslotIds}

BaseWeights ==
    {[soft_constraint |-> "LECTURER_PREFERENCE", weight_bwm |-> 450],
     [soft_constraint |-> "ROOM_UTILIZATION",    weight_bwm |-> 350],
     [soft_constraint |-> "PEAK_TIME_AVOIDANCE", weight_bwm |-> 200]}

BaseClasses ==
    {[class_id |-> c, course_id |-> c, class_capacity |-> 1, session_type |-> "lecture"] :
        c \in ClassIds}

BaseCourses == {[course_id |-> c, candidate_lecturers |-> <<>>] : c \in ClassIds}

BaseRooms ==
    {[room_id |-> r, capacity |-> MaxCap, room_type |-> "lecture"] : r \in RoomIds}

\* every lecturer is available at the first timeslot, and only there
OneSlotAvailability ==
    {[lecturer_id |-> l, timeslot_id |-> 1, status |-> "available"] : l \in LecturerIds}

BaseDataset ==
    [id                  |-> 1,
     dataset_exists      |-> TRUE,
     classes             |-> BaseClasses,
     courses             |-> BaseCourses,
     lecturers           |-> BaseLecturers,
     timeslots           |-> BaseTimeslots,
     rooms               |-> BaseRooms,
     enrollments         |-> {},
     availability        |-> OneSlotAvailability,
     preferences         |-> {},
     room_equipment      |-> {},
     course_requirements |-> {},
     penalty_weights     |-> BaseWeights]

\* Classes, enrollments and rooms of every capacity.
CapacityFamily ==
    {[BaseDataset EXCEPT
        !.classes = {[class_id |-> c, course_id |-> c, class_capacity |-> cp[c],
                      session_type |-> "lecture"] : c \in ClassIds},
        !.enrollments = {[class_id |-> c, student_count |-> en[c]] :
                            c \in {k \in ClassIds : en[k] # 0}},
        !.rooms = {[room_id |-> r, capacity |-> rc[r], room_type |-> "lecture"] :
                      r \in RoomIds}] :
        cp \in [ClassIds -> 1..MaxCap],
        en \in [ClassIds -> 0..MaxCap],
        rc \in [RoomIds -> 1..MaxCap]}

\* Classes of every capacity and session type, rooms of every capacity and type.
LabFamily ==
    {[BaseDataset EXCEPT
        !.classes = {[class_id |-> c, course_id |-> c,
                      class_capacity |-> cl[c].class_capacity,
                      session_type |-> cl[c].session_type] : c \in ClassIds},
        !.rooms = {[room_id |-> r, capacity |-> rm[r].capacity,
                    room_type |-> rm[r].room_type] : r \in RoomIds}] :
        cl \in [ClassIds -> [class_capacity : 1..MaxCap, session_type : SessionTypes]],
        rm \in [RoomIds -> [capacity : 1..MaxCap, room_type : RoomTypes]]}

\* The candidate lecturer codes of a course profile: none, one code (of a
\* lecturer of the dataset or of none), or all the codes.
CandidateLists ==
    {<<>>, <<"LX">>, [l \in LecturerIds |-> LecturerCode(l)]}
        \cup {<<LecturerCode(l)>> : l \in LecturerIds}

\* Availability rows of every status for every (lecturer, timeslot) pair, and
\* every candidate list for every course.
AvailabilityFamily ==
    {[BaseDataset EXCEPT
        !.availability = {[lecturer_id |-> k[1], timeslot_id |-> k[2], status |-> av[k]] :
                             k \in {j \in LecturerIds \X TimeslotIds : av[j] # ""}},
        !.courses = {[course_id |-> c, candidate_lecturers |-> cd[c]] : c \in ClassIds}] :
        av \in [LecturerIds \X TimeslotIds -> Statuses \cup {""}],
        cd \in [ClassIds -> CandidateLists]}

\* Datasets the loader rejects.
RejectedFamily ==
    {[BaseDataset EXCEPT !.dataset_exists = FALSE],
     [BaseDataset EXCEPT !.dataset_exists = FALSE, !.classes = {}],
     [BaseDataset EXCEPT !.classes = {}],
     [BaseDataset EXCEPT !.courses = {k \in BaseCourses : k.course_id # 1}]}

\* preference_score values: 0.0, 0.5, 1.0 and, no constraint bounding the
\* column, 1.5
PreferenceScores == {0, 500, One, 1500}

\* One class, one lecturer free at every timeslot, one room; a preference row
\* of every score, or none, at every timeslot; penalty weights of several
\* values, the PEAK_TIME_AVOIDANCE row at 0.2, at 0.0 or missing.
PreferenceFamily ==
    {[BaseDataset EXCEPT
        !.classes = {c \in BaseClasses : c.class_id = 1},
        !.lecturers = {l \in BaseLecturers : l.lecturer_id = 1},
        !.rooms = {r \in BaseRooms : r.room_id = 1},
        !.availability = {[lecturer_id |-> 1, timeslot_id |-> t, status |-> "available"] :
                             t \in TimeslotIds},
        !.preferences = {[lecturer_id |-> 1, timeslot_id |-> t,
                          preference_score |-> pf[t]] : t \in has},
        !.penalty_weights =
            {[soft_constraint |-> "LECTURER_PREFERENCE", weight_bwm |-> lp],
             [soft_constraint |-> "ROOM_UTILIZATION", weight_bwm |-> ru]}
            \cup {[soft_constraint |-> "PEAK_TIME_AVOIDANCE", weight_bwm |-> k] :
                      k \in pk}] :
        has \in SUBSET TimeslotIds,
        pf \in [TimeslotIds -> PreferenceScores],
        lp \in {450, 200},
        ru \in {350, 0},
        pk \in {{}, {0}, {200}}}

\* The base classes and lecturers with some of the rooms and some of the
\* timeslots, every lecturer free at each of them: with one room and one
\* timeslot the two classes cannot both be placed.
ConflictFamily ==
    {[BaseDataset EXCEPT
        !.rooms = rs,
        !.timeslots = ts,
        !.availability = {[lecturer_id |-> k[1], timeslot_id |-> k[2].timeslot_id,
                           status |-> "available"] : k \in LecturerIds \X ts}] :
        rs \in (SUBSET BaseRooms) \ {{}},
        ts \in (SUBSET BaseTimeslots) \ {{}}}

\* min_quantity values: none (held as 0), 1, 2 and, no constraint bounding
\* the column, -1
MinQuantities == {-1, 0, 1, 2}

\* One class of every session type whose course has no equipment requirement
\* or one requirement of every session type, flag and minimum; the first room
\* of every type, with no row of the required equipment or a row of quantity
\* 1 or 2; the second room a lecture room without equipment.
EquipmentFamily ==
    {[BaseDataset EXCEPT
        !.classes = {[class_id |-> 1, course_id |-> 1, class_capacity |-> 1,
                      session_type |-> st]},
        !.rooms = {[room_id |-> 1, capacity |-> MaxCap, room_type |-> rt],
                   [room_id |-> 2, capacity |-> MaxCap, room_type |-> "lecture"]},
        !.room_equipment = {[room_id |-> 1, equipment_key |-> "projector",
                             quantity |-> n] : n \in qty},
        !.course_requirements = reqs] :
        st \in SessionTypes,
        rt \in RoomTypes,
        qty \in {{}, {1}, {2}},
        reqs \in {{}} \cup
            {{[course_id |-> 1, session_type |-> qs, requirement_key |-> "projector",
               required_flag |-> rf, min_quantity |-> mq]} :
                qs \in {"", "lecture", "Lab"}, rf \in BOOLEAN, mq \in MinQuantities}}

\* Course profiles that name a lecturer of the dataset along with a code of
\* no lecturer, in either order.
UnresolvedCodeFamily ==
    {[BaseDataset EXCEPT
        !.courses = {[course_id |-> c, candidate_lecturers |-> cd[c]] : c \in ClassIds}] :
        cd \in [ClassIds -> {<<LecturerCode(l), "LX">> : l \in LecturerIds}
                                \cup {<<"LX", LecturerCode(l)>> : l \in LecturerIds}]}

\* One class of capacity 30, one room of capacity 40, one lecturer with
\* preference 1.0 at the one timeslot, peak or not, and the weights 0.45,
\* 0.35 and 0.20.
ScenarioFamily ==
    {[BaseDataset EXCEPT
        !.classes = {[class_id |-> 1, course_id |-> 1, class_capacity |-> 30,
                      session_type |-> "lecture"]},
        !.lecturers = {l \in BaseLecturers : l.lecturer_id = 1},
        !.rooms = {[room_id |-> 1, capacity |-> 40, room_type |-> "lecture"]},
        !.timeslots = {[timeslot_id |-> 1, is_peak |-> pk]},
        !.availability = {[lecturer_id |-> 1, timeslot_id |-> 1, status |-> "available"]},
        !.preferences = {[lecturer_id |-> 1, timeslot_id |-> 1, preference_score |-> One]}] :
        pk \in BOOLEAN}

\* The base dataset with one row more, of its dataset_id, that names a
\* lecturer, a timeslot, a class or a room of another dataset (the foreign
\* keys name the entity's id alone).
CrossDatasetFamily ==
    {[BaseDataset EXCEPT !.availability = @ \cup
         {[lecturer_id |-> NumLecturers + 1, timeslot_id |-> 1, status |-> "available"]}],
     [BaseDataset EXCEPT !.availability = @ \cup
         {[lecturer_id |-> 1, timeslot_id |-> NumTimeslots + 1, status |-> "available"]}],
     [BaseDataset EXCEPT !.preferences =
         {[lecturer_id |-> NumLecturers + 1, timeslot_id |-> 1, preference_score |-> One]}],
     [BaseDataset EXCEPT !.enrollments =
         {[class_id |-> NumClasses + 1, student_count |-> MaxCap]}],
     [BaseDataset EXCEPT !.room_equipment =
         {[room_id |-> NumRooms + 1, equipment_key |-> "projector", quantity |-> 1]}]}

DataSets ==
    CapacityFamily \cup LabFamily \cup AvailabilityFamily \cup PreferenceFamily
        \cup ConflictFamily \cup RejectedFamily \cup EquipmentFamily
        \cup UnresolvedCodeFamily \cup ScenarioFamily \cup CrossDatasetFamily

\* Rows an earlier request left in out_schedule: one per class.
StaleRows ==
    {[schedule_id |-> c, dataset_id |-> 1, class_id |-> c, lecturer_id |-> 1,
      room_id |-> 1, timeslot_id |-> c, status |-> "simulated", penalty |-> 0] :
        c \in ClassIds}

\* A row of out_schedule that belongs to another dataset.
OtherDatasetRows ==
    {[schedule_id |-> NumClasses + 1, dataset_id |-> 2, class_id |-> NumClasses + 1,
      lecturer_id |-> 1, room_id |-> 1, timeslot_id |-> 1, status |-> "simulated",
      penalty |-> 0]}

TypeOK ==
    /\ pc \in [Procs -> {"idle", "load", "create_solver", "preprocess", "solve",
                         "delete", "project", "commit", "done", "failed"}]
    /\ runsLeft \in 0..Max2(MaxRuns, NumReq)
    /\ delete_locks \in BOOLEAN
    /\ single_loop \in BOOLEAN
    /\ holder \in {0} \cup Procs
    /\ nextId \in Nat

InitRequests ==
    /\ pc = [p \in Procs |-> "idle"]
    /\ status_code = [p \in Procs |-> "NOT_SOLVED"]
    /\ sol = [p \in Procs |-> NoValuation]
    /\ session = [p \in Procs |-> EmptySession]
    /\ assignments = [p \in Procs |-> <<>>]
    /\ result = [p \in Procs |-> NoResult]
    /\ error = [p \in Procs |-> NoError]
    /\ response = [p \in Procs |-> NoResponse]
    /\ prior = [p \in Procs |-> {}]
    /\ previous = [p \in Procs |-> NoResult]
    /\ holder = 0

\* One request on any dataset, out_schedule holding the rows of an earlier one.
Init ==
    /\ ds \in DataSets
    /\ schedule = StaleRows
    /\ nextId = NumClasses + 1
    /\ runsLeft = 1
    /\ concurrent = FALSE
    /\ solver_sound = TRUE
    /\ delete_locks = FALSE
    /\ single_loop = FALSE
    /\ InitRequests

Spec == Init /\ [][Next]_vars

\* Datasets with several schedules to choose from: the base classes and
\* rooms, every lecturer available or without a row at every timeslot; and
\* the datasets of one class whose timeslots differ in preference and peak.
SeqDataSets ==
    {[BaseDataset EXCEPT
        !.availability = {[lecturer_id |-> k[1], timeslot_id |-> k[2],
                           status |-> "available"] : k \in on}] :
        on \in SUBSET (LecturerIds \X TimeslotIds)}
    \cup PreferenceFamily

\* Successive requests on one dataset.
InitSeq ==
    /\ ds \in SeqDataSets
    /\ schedule \in {{}, StaleRows}
    /\ nextId = NumClasses + 1
    /\ runsLeft = MaxRuns
    /\ concurrent = FALSE
    /\ solver_sound = TRUE
    /\ delete_locks = FALSE
    /\ single_loop = FALSE
    /\ InitRequests

SpecSeq == InitSeq /\ [][Next]_vars

\* Datasets of one class or more with one lecturer and one room to use, free
\* at every timeslot: each class can move between the timeslots.
ConcDataSets ==
    {[BaseDataset EXCEPT
        !.classes = {c \in BaseClasses : c.class_id <= n},
        !.lecturers = {l \in BaseLecturers : l.lecturer_id = 1},
        !.rooms = {r \in BaseRooms : r.room_id = 1},
        !.availability = {[lecturer_id |-> 1, timeslot_id |-> t, status |-> "available"] :
                             t \in TimeslotIds}] :
        n \in ClassIds}

\* Overlapping requests on one dataset.
InitConc ==
    /\ ds \in ConcDataSets
    /\ schedule \in {{}, StaleRows}
    /\ nextId = NumClasses + 1
    /\ runsLeft = NumReq
    /\ concurrent = TRUE
    /\ solver_sound = TRUE
    /\ delete_locks \in BOOLEAN
    /\ single_loop \in BOOLEAN
    /\ InitRequests

SpecConc == InitConc /\ [][Next]_vars

\* Datasets that reach every way a request can fail: classes and rooms of
\* every capacity, the lecturers available at one timeslot or at none.
ErrorFamily ==
    {[BaseDataset EXCEPT
        !.classes = {[class_id |-> c, course_id |-> c, class_capacity |-> cp[c],
                      session_type |-> "lecture"] : c \in ClassIds},
        !.rooms = {[room_id |-> r, capacity |-> rc[r], room_type |-> "lecture"] :
                      r \in RoomIds},
        !.availability = av] :
        cp \in [ClassIds -> 1..MaxCap],
        rc \in [RoomIds -> 1..MaxCap],
        av \in {OneSlotAvailability, {}}}

\* One class, both rooms, the lecturers available at any of the timeslots:
\* up to four w and four x variables, the selected w and x free to disagree
\* on the timeslot.
ValuationFamily ==
    {[BaseDataset EXCEPT
        !.classes = {c \in BaseClasses : c.class_id = 1},
        !.availability = {[lecturer_id |-> k[1], timeslot_id |-> k[2],
                           status |-> "available"] : k \in on}] :
        on \in SUBSET (LecturerIds \X TimeslotIds)}

\* One request, with a backend that may hand back any valuation; out_schedule
\* holds rows of the dataset and, possibly, a row of another dataset.
InitFaulty ==
    /\ ds \in ErrorFamily \cup RejectedFamily \cup ValuationFamily
    /\ schedule \in {StaleRows, StaleRows \cup OtherDatasetRows}
    /\ nextId = NumClasses + 2
    /\ runsLeft = 1
    /\ concurrent = FALSE
    /\ solver_sound \in BOOLEAN
    /\ delete_locks = FALSE
    /\ single_loop = FALSE
    /\ InitRequests

SpecFaulty == InitFaulty /\ [][Next]_vars

----------------------------------------------------------------------------
(* The claims. *)

Returned(p) == result[p].returned

\* C1: a returned result holds exactly one assignment for each class of the
\* dataset: no class is missing and no class appears twice.
C1_Uniqueness ==
    \A p \in Procs : Returned(p) =>
        LET as == result[p].assignments
        IN  /\ Len(as) = Cardinality(ds.classes)
            /\ \A c \in ds.classes :
                  Cardinality({i \in DOMAIN as : as[i].class_id = c.class_id}) = 1

\* A result for a dataset of two classes or more.
C1_Witness ==
    \E p \in Procs : Returned(p) /\ Cardinality(ds.classes) >= 2

\* C2: in a returned result no two assignments share a (lecturer, timeslot) pair.
C2_LecturerExclusive ==
    \A p \in Procs : Returned(p) =>
        LET as == result[p].assignments
        IN  \A i, j \in DOMAIN as :
                (i # j /\ as[i].lecturer_id = as[j].lecturer_id)
                    => as[i].timeslot_id # as[j].timeslot_id

\* A result in which one lecturer teaches two classes, both of which could
\* have been taught by that lecturer at the same timeslot.
C2_Witness ==
    \E p \in Procs : Returned(p) /\
        \E i, j \in DOMAIN result[p].assignments :
            LET a == result[p].assignments[i]
                b == result[p].assignments[j]
            IN  /\ i # j
                /\ a.lecturer_id = b.lecturer_id
                /\ <<b.class_id, a.timeslot_id, a.lecturer_id>> \in w_keys(b.class_id)

\* C3: in a returned result no two assignments share a (room, timeslot) pair.
C3_RoomExclusive ==
    \A p \in Procs : Returned(p) =>
        LET as == result[p].assignments
        IN  \A i, j \in DOMAIN as :
                (i # j /\ as[i].room_id = as[j].room_id)
                    => as[i].timeslot_id # as[j].timeslot_id

\* A result in which one room hosts two classes, both of which could have
\* been placed in that room at the same timeslot.
C3_Witness ==
    \E p \in Procs : Returned(p) /\
        \E i, j \in DOMAIN result[p].assignments :
            LET a == result[p].assignments[i]
                b == result[p].assignments[j]
            IN  /\ i # j
                /\ a.room_id = b.room_id
                /\ <<b.class_id, a.timeslot_id, a.room_id>> \in x_keys(b.class_id)

\* The capacity of the room with the given id, read from the room rows.
RoomCapacityOf(room_id) == (CHOOSE r \in ds.rooms : r.room_id = room_id).capacity

\* C4: the room of every returned assignment holds at least the class's
\* effective capacity: the student_count of its enrollment row when it has
\* one (smaller or larger than class_capacity), else its class_capacity.
C4_Capacity ==
    \A p \in Procs : Returned(p) =>
        \A i \in DOMAIN result[p].assignments :
            LET a == result[p].assignments[i]
            IN  /\ \A e \in ds.enrollments :
                      e.class_id = a.class_id => RoomCapacityOf(a.room_id) >= e.student_count
                /\ (~\E e \in ds.enrollments : e.class_id = a.class_id) =>
                      \A c \in ds.classes :
                          c.class_id = a.class_id
                              => RoomCapacityOf(a.room_id) >= c.class_capacity

\* A result with a class whose enrollment exceeds its class_capacity and a
\* class whose enrollment is below it.
C4_Witness ==
    \E p \in Procs : Returned(p) /\
        /\ \E e \in ds.enrollments : \E c \in ds.classes :
              c.class_id = e.class_id /\ e.student_count > c.class_capacity
        /\ \E e \in ds.enrollments : \E c \in ds.classes :
              c.class_id = e.class_id /\ e.student_count < c.class_capacity

\* The class row and the room row of an assignment.
ClassOf(a) == CHOOSE c \in ds.classes : c.class_id = a.class_id

RoomOf(a) == CHOOSE r \in ds.rooms : r.room_id = a.room_id

\* One lab class, one lecture class, one lab room, one lecture room, and one
\* timeslot at which lecturers are available.
LabRoutingDataset ==
    /\ Cardinality(ds.classes) = 2
    /\ Cardinality({c \in ds.classes : Lower(c.session_type) = "lab"}) = 1
    /\ Cardinality({c \in ds.classes : Lower(c.session_type) = "lecture"}) = 1
    /\ Cardinality(ds.rooms) = 2
    /\ Cardinality({r \in ds.rooms : Lower(r.room_type) = "lab"}) = 1
    /\ Cardinality({r \in ds.rooms : Lower(r.room_type) = "lecture"}) = 1
    /\ Cardinality({a.timeslot_id : a \in
          {b \in ds.availability : Lower(b.status) = "available"}}) = 1

\* C5: a returned assignment of a class whose session_type is "lab", ignoring
\* case, has a room whose room_type is "lab" or "hybrid", ignoring case; and
\* with one lab class, one lecture class, one lab room, one lecture room and
\* one common timeslot the lab class gets the lab room and the lecture class
\* the lecture room.
C5_LabDiscipline ==
    \A p \in Procs : Returned(p) =>
        \A i \in DOMAIN result[p].assignments :
            LET a == result[p].assignments[i]
            IN  /\ Lower(ClassOf(a).session_type) = "lab"
                    => Lower(RoomOf(a).room_type) \in {"lab", "hybrid"}
                /\ LabRoutingDataset
                    => Lower(RoomOf(a).room_type) = Lower(ClassOf(a).session_type)

\* A result for the lab-routing dataset whose lab class and lab room are
\* written in other cases than "lab".
C5_Witness ==
    \E p \in Procs : Returned(p) /\ LabRoutingDataset /\
        \E i \in DOMAIN result[p].assignments :
            LET a == result[p].assignments[i]
            IN  ClassOf(a).session_type = "LAB" /\ RoomOf(a).room_type = "Lab"

\* C6: every returned assignment has an Availability row for its (lecturer,
\* timeslot) pair whose status is "available", ignoring case; a pair with no
\* row or with a row of another status is never assigned.
C6_Availability ==
    \A p \in Procs : Returned(p) =>
        \A i \in DOMAIN result[p].assignments :
            LET a    == result[p].assignments[i]
                rows == {r \in ds.availability :
                            r.lecturer_id = a.lecturer_id /\ r.timeslot_id = a.timeslot_id}
            IN  /\ rows # {}
                /\ \A r \in rows : Lower(r.status) = "available"

\* A result on a dataset that has a busy pair and a pair without a row, with
\* an assignment whose row reads "Available".
C6_Witness ==
    \E p \in Procs : Returned(p) /\
        /\ \E r \in ds.availability : Lower(r.status) # "available"
        /\ \E l \in lecturer_ids : \E t \in timeslot_ids :
              ~\E r \in ds.availability : r.lecturer_id = l /\ r.timeslot_id = t
        /\ \E i \in DOMAIN result[p].assignments : \E r \in ds.availability :
              /\ r.lecturer_id = result[p].assignments[i].lecturer_id
              /\ r.timeslot_id = result[p].assignments[i].timeslot_id
              /\ r.status = "Available"

\* The committed rows that carry the dataset id.
ThisDataset(rows) == {r \in rows : r.dataset_id = ds.id}

\* The rows a result calls for: one per assignment, with the assignment's
\* four ids, status "simulated" and its penalty, and with the ids the last
\* Len(as) inserts were given.
RowsOfResult(res) ==
    LET as == res.assignments
    IN  {[schedule_id |-> nextId - Len(as) + i - 1,
          dataset_id  |-> res.dataset_id,
          class_id    |-> as[i].class_id,
          lecturer_id |-> as[i].lecturer_id,
          room_id     |-> as[i].room_id,
          timeslot_id |-> as[i].timeslot_id,
          status      |-> "simulated",
          penalty     |-> as[i].penalty] : i \in DOMAIN as}

\* C7: after a successful request, also one that follows other successful
\* requests on the dataset, the committed rows of the dataset are exactly one
\* row per returned assignment, with its class, lecturer, room and timeslot
\* ids, status "simulated" and its penalty; no row of an earlier request
\* remains.
C7_PersistenceConsistency ==
    \A p \in Procs : pc[p] = "done" =>
        /\ ThisDataset(schedule) = RowsOfResult(result[p])
        /\ Cardinality(ThisDataset(schedule)) = Len(result[p].assignments)
        /\ ThisDataset(schedule) \cap prior[p] = {}

\* The end of a request that found the rows an earlier request of the same
\* behaviour had committed.
C7_Witness ==
    \E p \in Procs :
        /\ pc[p] = "done"
        /\ runsLeft = 0
        /\ \E r \in prior[p] : r.schedule_id > NumClasses

\* C8: whenever a request ends with an error, the committed rows are those
\* of before the request: nothing is deleted and nothing is inserted.
C8_ErrorsLeaveScheduleUnchanged ==
    \A p \in Procs : pc[p] = "failed" => schedule = prior[p]

\* A request that failed in the projection, after its delete was issued,
\* with rows of the dataset committed before it.
C8_Witness ==
    \E p \in Procs :
        /\ pc[p] = "failed"
        /\ error[p].detail = "Incomplete assignment in solution"
        /\ ThisDataset(prior[p]) # {}

\* C9: within a request the delete is issued before any insert and one
\* commit makes both visible: the committed rows of the dataset are at every
\* moment the complete earlier schedule or the complete new one.
C9_AtomicReplace ==
    \A p \in Procs :
        /\ session[p].added # <<>> => session[p].delete_issued
        /\ pc[p] # "idle" =>
              \/ ThisDataset(schedule) = ThisDataset(prior[p])
              \/ /\ pc[p] = "done"
                 /\ ThisDataset(schedule) = RowsOfResult(result[p])
                 /\ Cardinality(ThisDataset(schedule)) = Cardinality(ds.classes)

\* A request between its delete and its commit, its inserts pending, while
\* the earlier rows are still the committed ones.
C9_Witness ==
    \E p \in Procs :
        /\ pc[p] = "commit"
        /\ session[p].deleted # {}
        /\ Len(session[p].added) >= 2
        /\ ThisDataset(schedule) = ThisDataset(prior[p])
        /\ ThisDataset(schedule) # {}

\* C10: when two overlapping requests on one dataset both succeed, the
\* committed rows of the dataset are afterwards exactly the assignments of
\* one of the two, one row per class (last write wins).
C10_Serialised ==
    (\A p \in Procs : pc[p] = "done") =>
        /\ Cardinality(ThisDataset(schedule)) = Cardinality(ds.classes)
        /\ \E p \in Procs :
              {[class_id |-> r.class_id, lecturer_id |-> r.lecturer_id,
                room_id |-> r.room_id, timeslot_id |-> r.timeslot_id] :
                  r \in ThisDataset(schedule)}
              = {[class_id |-> a.class_id, lecturer_id |-> a.lecturer_id,
                  room_id |-> a.room_id, timeslot_id |-> a.timeslot_id] :
                    a \in Range(result[p].assignments)}

\* sum(a.penalty for a in assignments)
SumPenalties(as) == SumSeq([i \in 1..Len(as) |-> as[i].penalty])

\* C11: in every returned result, objective_value is the sum of the three
\* soft_constraint_totals, that sum is the sum of the penalties of the
\* returned assignments, and each assignment's penalty is the sum of the
\* values of its penalty_breakdown.
C11_PenaltyAccounting ==
    \A p \in Procs : Returned(p) =>
        LET res == result[p]
        IN  /\ DOMAIN res.soft_constraint_totals = SOFT_CONSTRAINT_KEYS
            /\ res.objective_value
                 = res.soft_constraint_totals["LECTURER_PREFERENCE"]
                     + res.soft_constraint_totals["ROOM_UTILIZATION"]
                     + res.soft_constraint_totals["PEAK_TIME_AVOIDANCE"]
            /\ res.objective_value = SumPenalties(res.assignments)
            /\ \A i \in DOMAIN res.assignments :
                  res.assignments[i].penalty
                      = SumMap(res.assignments[i].penalty_breakdown)

\* A returned result of two assignments whose breakdowns have different keys
\* and in which every total is positive.
C11_Witness ==
    \E p \in Procs :
        /\ Returned(p)
        /\ Len(result[p].assignments) = 2
        /\ DOMAIN result[p].assignments[1].penalty_breakdown
             # DOMAIN result[p].assignments[2].penalty_breakdown
        /\ \A key \in SOFT_CONSTRAINT_KEYS :
              result[p].soft_constraint_totals[key] > 0

\* Every assignment of each class to a (timeslot, lecturer, room) of its
\* candidate sets in which no lecturer and no room serves two classes in one
\* timeslot; f[c] = <<timeslot, lecturer, room>>.
Schedules ==
    LET options == [c \in Range(classes) |->
                      {<<k[2], k[3], r>> : <<k, r>> \in w_keys(c) \X room_candidates(c)}]
    IN  {f \in [Range(classes) -> UNION {options[c] : c \in Range(classes)}] :
            /\ \A c \in Range(classes) : f[c] \in options[c]
            /\ \A c, d \in Range(classes) :
                  (c # d /\ f[c][1] = f[d][1])
                      => (f[c][2] # f[d][2] /\ f[c][3] # f[d][3])}

\* The total penalty of an assignment of the classes, from the input data.
SchedulePenalty(f) ==
    SumSeq([i \in 1..Len(classes) |->
        LET c == classes[i]
        IN  SumMap(penalty_breakdown(c, f[c][1], f[c][3], f[c][2]))])

\* One class, one lecturer, one room and two available timeslots, the peak
\* one preferred at 1.0 and the other at 0.5, weights (0.45, 0.0, 0.20).
PreferenceTieBreakDataset ==
    /\ Cardinality(ds.classes) = 1
    /\ Cardinality(ds.lecturers) = 1
    /\ Cardinality(ds.rooms) = 1
    /\ weight_map("LECTURER_PREFERENCE") = 450
    /\ weight_map("ROOM_UTILIZATION") = 0
    /\ weight_map("PEAK_TIME_AVOIDANCE") = 200
    /\ \E l \in lecturer_ids : \E t1, t2 \in timeslot_ids :
          /\ TimeslotInfo(t1).is_peak /\ ~TimeslotInfo(t2).is_peak
          /\ {t \in timeslot_ids : availability_map(l, t)} = {t1, t2}
          /\ preference_map(l, t1) = One
          /\ preference_map(l, t2) = 500

\* C12: when the returned status is OPTIMAL no assignment of the classes
\* within their candidate sets that respects H1-H4 has a smaller total
\* penalty than the returned one; in the preference tie-break dataset the
\* peak timeslot is the one chosen.
C12_Optimal ==
    \A p \in Procs : (Returned(p) /\ result[p].status = "OPTIMAL") =>
        /\ \A f \in Schedules :
              SumPenalties(result[p].assignments) <= SchedulePenalty(f)
        /\ PreferenceTieBreakDataset =>
              \A i \in DOMAIN result[p].assignments :
                  TimeslotInfo(result[p].assignments[i].timeslot_id).is_peak

\* An OPTIMAL result on the preference tie-break dataset.
C12_Witness ==
    \E p \in Procs :
        /\ Returned(p)
        /\ result[p].status = "OPTIMAL"
        /\ PreferenceTieBreakDataset
        /\ result[p].assignments[1].penalty = 200 * One
        /\ \E f \in Schedules : SchedulePenalty(f) = 225 * One

\* C13: two requests on an unchanged dataset return the same value for each
\* of the three soft_constraint_totals.  Stated for the case most in its
\* favour, both results of status OPTIMAL.
C13_SameTotals ==
    \A p \in Procs :
        ( /\ Returned(p) /\ previous[p].returned
          /\ result[p].status = "OPTIMAL" /\ previous[p].status = "OPTIMAL" )
        => result[p].soft_constraint_totals = previous[p].soft_constraint_totals

\* The loader finds the dataset, classes in it and the course of each class.
LoaderAccepts ==
    /\ ds.dataset_exists
    /\ classes # <<>>
    /\ \A cid \in Range(classes) : HasCourse(ClassRow(cid).course_id)

\* C14: when some class has no candidate room or no candidate timeslot the
\* request never reaches the solve, and the error it ends with is
\* NoCompatibleRoom or NoLecturerAvailability for the failing class of the
\* lowest class_id, the room check deciding first.
C14_PreprocessRejection ==
    \A p \in Procs : (LoaderAccepts /\ FailingClasses # {}) =>
        /\ pc[p] \notin {"solve", "delete", "project", "commit", "done"}
        /\ pc[p] = "failed" =>
              LET cid == Min(FailingClasses)
              IN  /\ error[p].status = 409
                  /\ error[p].class_id = cid
                  /\ error[p].detail =
                        IF room_candidates(cid) = {}
                        THEN "No compatible room for class"
                        ELSE "Class has no feasible lecturer availability"

\* The two base classes with two lecturers, one room and one timeslot.
ConflictDataset ==
    /\ LoaderAccepts
    /\ Len(classes) = 2
    /\ Cardinality(ds.rooms) = 1
    /\ Cardinality(ds.timeslots) = 1
    /\ Cardinality(ds.lecturers) = 2

\* C15: when every class has a candidate room and a candidate timeslot, the
\* request ends with NoFeasibleSchedule exactly when no assignment of the
\* classes within their candidate sets keeps every lecturer and every room
\* to one class per timeslot: it gets past the solve when one exists, and
\* with none it fails there (or earlier, creating the backend).  Two
\* classes with one room and one timeslot have none.
C15_NoFeasibleSchedule ==
    \A p \in Procs :
        (pc[p] \notin {"idle", "load"} /\ LoaderAccepts /\ FailingClasses = {}) =>
            LET none == (Schedules = {})
            IN  /\ (pc[p] = "failed" /\ error[p].detail = "No feasible schedule found")
                      => (none /\ error[p].status = 500)
                /\ pc[p] \in {"delete", "project", "commit", "done"} => ~none
                /\ (pc[p] = "failed" /\ none)
                      => error[p].detail \in {"No feasible schedule found",
                                              "Unable to initialise solver"}
                /\ ConflictDataset => none

\* The conflict dataset has passed preprocessing and fails at the solve.
C15_Witness ==
    \E p \in Procs :
        /\ ConflictDataset
        /\ FailingClasses = {}
        /\ pc[p] = "failed"
        /\ status_code[p] = "INFEASIBLE"
        /\ error[p].detail = "No feasible schedule found"

\* C16: the request fails with DatasetNotFound when the dataset row is
\* missing, and with EmptyDataset when the row exists and no class carries
\* its id; the dataset is looked for first.  Such a request never comes to
\* create a solver: it issues no delete and no insert, and the committed
\* rows stay as it found them.
C16_DatasetChecks ==
    \A p \in Procs :
        /\ (~ds.dataset_exists \/ classes = <<>>) =>
              /\ pc[p] \in {"idle", "load", "failed"}
              /\ status_code[p] = "NOT_SOLVED"
              /\ session[p] = EmptySession
              /\ pc[p] # "idle" => schedule = prior[p]
        /\ pc[p] = "failed" =>
              /\ ~ds.dataset_exists <=>
                    (error[p].detail = "Dataset not found" /\ error[p].status = 404)
              /\ (ds.dataset_exists /\ classes = <<>>) <=>
                    ( /\ error[p].detail = "Dataset has no classes to schedule"
                      /\ error[p].status = 400 )

\* A request for a dataset that is missing, and so has no class either, has
\* failed with DatasetNotFound while rows of an earlier request are stored.
C16_Witness ==
    \E p \in Procs :
        /\ ~ds.dataset_exists
        /\ classes = <<>>
        /\ pc[p] = "failed"
        /\ error[p].status = 404
        /\ schedule # {}

\* C17: solver_status is FEASIBLE exactly when the backend status is OPTIMAL
\* or FEASIBLE and status is OPTIMAL exactly when it is OPTIMAL: a returned
\* result always has solver_status FEASIBLE, its status is OPTIMAL only for
\* a backend status OPTIMAL, and any other backend status ends the request
\* with NoFeasibleSchedule instead of a result.
C17_StatusMapping ==
    \A p \in Procs :
        /\ Returned(p) =>
              /\ status_code[p] \in {"OPTIMAL", "FEASIBLE"}
              /\ result[p].solver_status = "FEASIBLE"
              /\ result[p].status \in {"OPTIMAL", "NOT OPTIMAL"}
              /\ result[p].status = "OPTIMAL" <=> status_code[p] = "OPTIMAL"
        /\ status_code[p] \notin {"OPTIMAL", "FEASIBLE", "NOT_SOLVED"} =>
              /\ ~Returned(p)
              /\ pc[p] = "failed"
              /\ error[p].detail = "No feasible schedule found"

\* A result returned for a backend status FEASIBLE.
C17_Witness ==
    \E p \in Procs :
        /\ Returned(p)
        /\ status_code[p] = "FEASIBLE"
        /\ result[p].solver_status = "FEASIBLE"
        /\ result[p].status = "NOT OPTIMAL"

\* C18: every value of the penalty_breakdown of a returned assignment is
\* strictly positive; a term of value zero or less is not a key of the map.
C18_StrictlyPositive ==
    \A p \in Procs : Returned(p) =>
        \A i \in DOMAIN result[p].assignments :
            LET breakdown == result[p].assignments[i].penalty_breakdown
            IN  \A key \in DOMAIN breakdown : breakdown[key] > 0

\* C19: while a request is between its loads and the return of
\* solver.Solve(), another request of the same event loop whose loads have
\* been answered can be resumed.
C19_SolveDoesNotBlock ==
    \A p, q \in Procs :
        ( /\ single_loop
          /\ p # q
          /\ pc[p] \in {"create_solver", "preprocess", "solve"}
          /\ pc[q] = "load" )
        => ENABLED Load(q)

\* The committed rows that carry another dataset id.
OtherDatasets(rows) == {r \in rows : r.dataset_id # ds.id}

\* C20: no step of a request, whether it ends with a result or with an
\* error, changes a row of an input table or a ScheduleEntry row of another
\* dataset.
C20_Frame ==
    [][ /\ ds' = ds
        /\ OtherDatasets(schedule)' = OtherDatasets(schedule) ]_vars

\* A request has replaced the rows of its dataset while a row of another
\* dataset is stored.
C20_Witness ==
    \E p \in Procs :
        /\ pc[p] = "done"
        /\ OtherDatasets(schedule) # {}
        /\ ThisDataset(prior[p]) # {}
        /\ ThisDataset(schedule) \cap ThisDataset(prior[p]) = {}

\* C21: once the loads have passed, a room is a candidate of a class exactly
\* when its capacity is at least the effective capacity of the class, its
\* type is lab or hybrid if the class requires a lab, and it holds, of every
\* required equipment of the course whose session type is blank or that of
\* the class, at least max(min_quantity, 1); a non-lab class and a room of
\* type lab included.
C21_RoomCandidates ==
    \A p \in Procs : (LoaderAccepts /\ pc[p] \notin {"idle", "load"}) =>
        \A cid \in Range(classes) : \A r \in room_ids :
            LET c    == ClassInfo(cid)
                room == RoomInfo(r)
            IN  r \in room_candidates(cid) <=>
                    /\ room.capacity >= EffectiveCapacity(cid)
                    /\ c.requires_lab => Lower(room.room_type) \in {"lab", "hybrid"}
                    /\ \A q \in course_requirements(c.course_id) :
                          ( /\ q.session_type = ""
                                \/ Lower(q.session_type) = Lower(c.session_type)
                            /\ q.required_flag )
                          => EquipmentQuantity(r, q.requirement_key)
                                 >= Max2(q.min_quantity, 1)

\* C22: once the loads have passed, the w variables of a class are those of
\* the triples (class, timeslot, lecturer) whose lecturer is a candidate of
\* the course, whose timeslot is one of the dataset and whose availability
\* row has status "available" in any case; the candidate timeslots of the
\* class are the timeslots with such a lecturer; the x variables are those
\* of a candidate timeslot and a candidate room; and the solver's answer
\* sets no other variable.
C22_Variables ==
    \A p \in Procs : (LoaderAccepts /\ pc[p] \notin {"idle", "load"}) =>
        \A cid \in Range(classes) :
            LET cand == course_candidates(ClassRow(cid).course_id)
                avail(l, t) == \E a \in ds.availability :
                                  /\ a.lecturer_id = l /\ a.timeslot_id = t
                                  /\ Lower(a.status) = "available"
                W == {k \in {cid} \X timeslot_ids \X cand : avail(k[3], k[2])}
                T == {t \in timeslot_ids : \E l \in cand : avail(l, t)}
                X == {cid} \X T \X room_candidates(cid)
            IN  /\ w_keys(cid) = W
                /\ class_timeslot_candidates(cid) = T
                /\ x_keys(cid) = X
                /\ {k \in sol[p].w : k[1] = cid} \subseteq W
                /\ {k \in sol[p].x : k[1] = cid} \subseteq X

\* A request has been solved for a dataset where a course names one of the
\* lecturers, who is available at one timeslot and busy at the other, while
\* the other lecturer is available at both.
C22_Witness ==
    \E p \in Procs : \E cid \in ClassIds : \E l \in LecturerIds :
        /\ LoaderAccepts /\ pc[p] = "delete"
        /\ cid \in Range(classes)
        /\ ClassInfo(cid).candidate_lecturers = {l}
        /\ class_timeslot_candidates(cid) # timeslot_ids
        /\ \E a \in ds.availability : a.lecturer_id = l /\ a.status = "busy"
        /\ \E a \in ds.availability : a.lecturer_id = l /\ a.status = "Available"
        /\ \A m \in lecturer_ids \ {l} : \A t \in timeslot_ids : availability_map(m, t)
        /\ \E k \in sol[p].x : k[1] = cid

\* C23: once the loads have passed, the candidate lecturers of a course are
\* the lecturers its codes name when the list is not empty and every code is
\* that of a lecturer of the dataset, and all the lecturers of the dataset
\* otherwise.
C23_CandidateFallback ==
    \A p \in Procs : (LoaderAccepts /\ pc[p] \notin {"idle", "load"}) =>
        \A k \in ds.courses :
            LET codes == Range(k.candidate_lecturers)
            IN  course_candidates(k.course_id) =
                    IF codes # {} /\ \A code \in codes : HasLecturerCode(code)
                    THEN {l.lecturer_id : l \in {m \in ds.lecturers : m.lecturer_code \in codes}}
                    ELSE lecturer_ids

\* C24: a 0/1 valuation of the w and x variables that satisfies H1 and H2 has,
\* for each class, exactly one x variable at 1, at the timeslot of the one w
\* variable of the class at 1.
C24_ExactlyOneX ==
    \A p \in Procs :
        ( /\ LoaderAccepts /\ pc[p] \notin {"idle", "load"}
          /\ H1(sol[p]) /\ H2(sol[p]) )
        => \A cid \in Range(classes) :
              LET ws == {k \in sol[p].w : k[1] = cid}
                  xs == {k \in sol[p].x : k[1] = cid}
              IN  /\ Cardinality(xs) = 1
                  /\ \A kw \in ws : \A kx \in xs : kx[2] = kw[2]

\* A backend free to hand back any valuation has handed back one that
\* satisfies H1 and H2, for a class with four w and four x variables, the w
\* selected at the second timeslot.
C24_Witness ==
    \E p \in Procs :
        /\ LoaderAccepts /\ pc[p] = "delete" /\ ~solver_sound
        /\ H1(sol[p]) /\ H2(sol[p])
        /\ Cardinality(w_keys(1)) = 4 /\ Cardinality(x_keys(1)) = 4
        /\ \E k \in sol[p].w : k[2] = 2

\* C25: a request passes the projection only when every class has exactly one
\* x variable above 0.5 and a w variable above 0.5 at the timeslot of that x;
\* with none or several x selected, or no w at the timeslot, it fails with
\* "Incomplete assignment in solution".
C25_ProjectorRejects ==
    \A p \in Procs : (LoaderAccepts /\ pc[p] \in {"commit", "done"}) =>
        \A cid \in Range(classes) :
            LET xs == {k \in sol[p].x : k[1] = cid}
            IN  /\ Cardinality(xs) = 1
                /\ \A kx \in xs : \E kw \in sol[p].w : kw[1] = cid /\ kw[2] = kx[2]

\* C26: the penalty of a returned assignment (class c, timeslot t, lecturer
\* l, room r) is the weight of LECTURER_PREFERENCE times (1 - preference(l, t)),
\* a missing preference being 0, plus the weight of PEAK_TIME_AVOIDANCE if t
\* is peak, plus the weight of ROOM_UTILIZATION times
\* max(r.capacity - effective_capacity(c), 0) / r.capacity (0 for a room of
\* capacity 0); it is the sum of the objective coefficients of w[c,t,l] and
\* x[c,t,r], and objective_value is the objective at the solver's answer.
\* With capacities 30 and 40, preference 1.0 and weights (0.45, 0.35, 0.20) the
\* penalty is 0.0875 off peak and 0.2875 at peak.
C26_PenaltyIsCoefficient ==
    \A p \in Procs : Returned(p) =>
        /\ result[p].objective_value = Objective(sol[p])
        /\ \A i \in DOMAIN result[p].assignments :
              LET a    == result[p].assignments[i]
                  t    == a.timeslot_id
                  l    == a.lecturer_id
                  rcap == RoomInfo(a.room_id).capacity
                  pref == IF \E f \in ds.preferences :
                                 f.lecturer_id = l /\ f.timeslot_id = t
                          THEN (CHOOSE f \in ds.preferences :
                                    f.lecturer_id = l /\ f.timeslot_id = t).preference_score
                          ELSE 0
              IN  /\ a.penalty = w_coeff(<<a.class_id, t, l>>)
                                    + x_coeff(<<a.class_id, t, a.room_id>>)
                  /\ a.penalty =
                        weight_map("LECTURER_PREFERENCE") * (One - pref)
                        + (IF TimeslotInfo(t).is_peak
                           THEN weight_map("PEAK_TIME_AVOIDANCE") * One ELSE 0)
                        + (IF rcap = 0 THEN 0
                           ELSE weight_map("ROOM_UTILIZATION")
                                    * ((Max2(rcap - EffectiveCapacity(a.class_id), 0) * One)
                                           \div rcap))
                  /\ ds \in ScenarioFamily =>
                        a.penalty = IF TimeslotInfo(t).is_peak THEN 287500 ELSE 87500

\* The class of capacity 30 has been scheduled in the room of capacity 40 at
\* a peak timeslot, and the result returned.
C26_Witness ==
    \E p \in Procs :
        /\ Returned(p)
        /\ ds \in ScenarioFamily
        /\ \E i \in DOMAIN result[p].assignments :
              /\ TimeslotInfo(result[p].assignments[i].timeslot_id).is_peak
              /\ EffectiveCapacity(result[p].assignments[i].class_id) = 30
              /\ RoomInfo(result[p].assignments[i].room_id).capacity = 40

\* C27: the steps of a request run in the order loader, preprocessor, model
\* builder, solver, projector, persister: the solver backend is constructed,
\* and "Unable to initialise solver" raised, only after the preprocessing has
\* passed for every class, and the DELETE on out_schedule is issued only
\* after the projection has been done for every class.
C27_StrictOrder ==
    \A p \in Procs :
        /\ ( /\ pc[p] = "failed"
             /\ error[p].detail = "Unable to initialise solver" )
           => (LoaderAccepts /\ FailingClasses = {})
        \* a request that holds a solver is one whose classes all have
        \* candidates
        /\ pc[p] = "preprocess" => (LoaderAccepts /\ FailingClasses = {})
        \* a request about to project has issued no DELETE
        /\ session[p].delete_issued => pc[p] # "project"

\* C28: a request on a dataset one of whose rows names an entity of another
\* dataset (a class its course, an availability or preference row its
\* lecturer or timeslot, an enrollment row its class, a room-equipment row
\* its room) fails: it returns no result.
C28_CrossDatasetRejected ==
    \A p \in Procs :
        ( /\ ds.dataset_exists
          /\ \/ \E c \in ds.classes : ~HasCourse(c.course_id)
             \/ \E a \in ds.availability \cup ds.preferences :
                   a.lecturer_id \notin lecturer_ids \/ a.timeslot_id \notin timeslot_ids
             \/ \E e \in ds.enrollments : e.class_id \notin Range(classes)
             \/ \E e \in ds.room_equipment : e.room_id \notin room_ids )
        => (~Returned(p) /\ pc[p] \notin {"commit", "done"})

\* C29: when run_bwm_ilp has returned a result, the schedule committed, the
\* request is answered with status 200 and a body that carries the result's
\* solver_status, status and execution time along with its objective_value,
\* soft_constraint_totals and assignments.
C29_ResponseDelivered ==
    \A p \in Procs : Returned(p) =>
        /\ response[p].status_code = 200
        /\ {"solver_status", "status", "time_execution", "objective_value",
            "soft_constraint_totals", "assignments"} \subseteq DOMAIN response[p].body
        /\ \A k \in DOMAIN response[p].body \cap DOMAIN result[p] :
              response[p].body[k] = result[p][k]

\* C30: the lecturer of every returned assignment is a candidate of the
\* course of the class: one of the lecturers the course's codes name or, when
\* they name none, a lecturer of the dataset; and the solver selected that
\* lecturer for the class at the timeslot at which it selected the room.
C30_LecturerIsCandidate ==
    \A p \in Procs : Returned(p) =>
        \A i \in DOMAIN result[p].assignments :
            LET a     == result[p].assignments[i]
                codes == Range(CourseRow(ClassRow(a.class_id).course_id).candidate_lecturers)
                named == {l.lecturer_id : l \in {m \in ds.lecturers : m.lecturer_code \in codes}}
            IN  /\ a.lecturer_id \in (IF named = {} THEN lecturer_ids ELSE named)
                /\ <<a.class_id, a.timeslot_id, a.lecturer_id>> \in sol[p].w
                /\ <<a.class_id, a.timeslot_id, a.room_id>> \in sol[p].x

\* A result has been returned in which a class whose course names one
\* lecturer has that lecturer, at the second timeslot, while the other
\* lecturer was available at that timeslot too.
C30_Witness ==
    \E p \in Procs :
        /\ Returned(p)
        /\ \E i \in DOMAIN result[p].assignments :
              LET a == result[p].assignments[i]
              IN  /\ ClassInfo(a.class_id).candidate_lecturers = {a.lecturer_id}
                  /\ a.timeslot_id = 2
                  /\ \E l \in lecturer_ids \ {a.lecturer_id} : availability_map(l, 2)

====
